---- MODULE Spec2Model ----
(***************************************************************************)
(* A model of src/main.py: the used-inventory scraping service.            *)
(*                                                                         *)
(*   - text is modelled by TLA+ strings, character by character: the       *)
(*     regular expressions and str methods of the source are operators     *)
(*     that scan the string the way the source's calls do;                 *)
(*   - Python values that may be None, a str, an int, a dict or a list     *)
(*     are tagged records (PyNone, PyStr, PyInt, PyDict, PyList);          *)
(*   - an HTML document is the list of the elements the selectors of the   *)
(*     source look at, and its raw markup is the serialisation of that     *)
(*     list.                                                               *)
(***************************************************************************)
EXTENDS Integers, Sequences, FiniteSets, TLC

VARIABLES
    now,        \* the clock TTLCache reads, in seconds
    cache,      \* main.py:21, key -> [value, expires, stored]
    site,       \* the listing page the dealer's site serves now
    hashSeed,   \* what fixes the iteration order of a set of str in this process
    failures,   \* detail fetches that have failed so far
    req,        \* per worker thread: the inventory_search call it is running
    log,        \* history: the cache lookups, the writes and the failed searches
    input,      \* the searches that may arrive; in SpecFn a function and its argument
    output      \* in SpecFn, what the function returned

vars == <<now, cache, site, hashSeed, failures, req, log, input, output>>

-----------------------------------------------------------------------------
(* Python values *)

PyNone == [t |-> "None"]
PyStr(s) == [t |-> "str", v |-> s]
PyInt(n) == [t |-> "int", v |-> n]
PyDict(d) == [t |-> "dict", v |-> d]
PyList(l) == [t |-> "list", v |-> l]

IsNone(x) == x.t = "None"

\* bool(x)
Truthy(x) ==
    CASE x.t = "None" -> FALSE
      [] x.t = "str"  -> x.v # ""
      [] x.t = "int"  -> x.v # 0
      [] x.t = "dict" -> DOMAIN x.v # {}
      [] x.t = "list" -> x.v # <<>>

\* a or b
PyOr(a, b) == IF Truthy(a) THEN a ELSE b

\* d.get(k) of a dict d
DictGet(d, k) == IF k \in DOMAIN d.v THEN d.v[k] ELSE PyNone

-----------------------------------------------------------------------------
(* str methods and character classes *)

\* s[i-1:j] with the indices cut to the string, as a Python slice is
Slice(s, i, j) ==
    LET a == IF i < 1 THEN 1 ELSE i
        b == IF j > Len(s) THEN Len(s) ELSE j
    IN  IF a > b THEN "" ELSE SubSeq(s, a, b)

CharAt(s, i) == Slice(s, i, i)

DigitChars == {"0", "1", "2", "3", "4", "5", "6", "7", "8", "9"}
UpperChars == {"A", "B", "C", "D", "E", "F", "G", "H", "I", "J", "K", "L", "M",
               "N", "O", "P", "Q", "R", "S", "T", "U", "V", "W", "X", "Y", "Z"}
LowerChars == {"a", "b", "c", "d", "e", "f", "g", "h", "i", "j", "k", "l", "m",
               "n", "o", "p", "q", "r", "s", "t", "u", "v", "w", "x", "y", "z"}
AlphaChars == UpperChars \cup LowerChars
SpaceChars == {" "}
WordChars == AlphaChars \cup DigitChars \cup {"_"}

LowerOf ==
    "A" :> "a" @@ "B" :> "b" @@ "C" :> "c" @@ "D" :> "d" @@ "E" :> "e" @@
    "F" :> "f" @@ "G" :> "g" @@ "H" :> "h" @@ "I" :> "i" @@ "J" :> "j" @@
    "K" :> "k" @@ "L" :> "l" @@ "M" :> "m" @@ "N" :> "n" @@ "O" :> "o" @@
    "P" :> "p" @@ "Q" :> "q" @@ "R" :> "r" @@ "S" :> "s" @@ "T" :> "t" @@
    "U" :> "u" @@ "V" :> "v" @@ "W" :> "w" @@ "X" :> "x" @@ "Y" :> "y" @@
    "Z" :> "z"

UpperOf ==
    "a" :> "A" @@ "b" :> "B" @@ "c" :> "C" @@ "d" :> "D" @@ "e" :> "E" @@
    "f" :> "F" @@ "g" :> "G" @@ "h" :> "H" @@ "i" :> "I" @@ "j" :> "J" @@
    "k" :> "K" @@ "l" :> "L" @@ "m" :> "M" @@ "n" :> "N" @@ "o" :> "O" @@
    "p" :> "P" @@ "q" :> "Q" @@ "r" :> "R" @@ "s" :> "S" @@ "t" :> "T" @@
    "u" :> "U" @@ "v" :> "V" @@ "w" :> "W" @@ "x" :> "X" @@ "y" :> "Y" @@
    "z" :> "Z"

LowerChar(c) == IF c \in UpperChars THEN LowerOf[c] ELSE c
UpperChar(c) == IF c \in LowerChars THEN UpperOf[c] ELSE c

\* the least i in lo..hi with P(i), 0 when there is none
Least(lo, hi, P(_)) ==
    IF \E i \in lo..hi : P(i)
    THEN CHOOSE i \in lo..hi : P(i) /\ \A k \in lo..(i - 1) : ~P(k)
    ELSE 0

\* s.lower()
RECURSIVE StrLower(_)
StrLower(s) ==
    IF Len(s) <= 1 THEN LowerChar(s)
    ELSE StrLower(SubSeq(s, 1, Len(s) \div 2))
         \o StrLower(SubSeq(s, (Len(s) \div 2) + 1, Len(s)))

\* t in s
Contains(s, t) ==
    \E i \in 0..(Len(s) - Len(t)) : Slice(s, i + 1, i + Len(t)) = t

\* s.find(t, from): the least index >= from where t occurs in s, 0 when none
\* (indices count from 1)
StrFind(s, t, from) ==
    Least(from, Len(s) - Len(t) + 1, LAMBDA i : Slice(s, i, i + Len(t) - 1) = t)

\* s.replace(a, b)
RECURSIVE StrReplace(_, _, _)
StrReplace(s, a, b) ==
    LET i == StrFind(s, a, 1)
    IN  IF i = 0 THEN s
        ELSE Slice(s, 1, i - 1) \o b
             \o StrReplace(Slice(s, i + Len(a), Len(s)), a, b)

\* s.strip()
RECURSIVE StrStrip(_)
StrStrip(s) ==
    IF s = "" THEN ""
    ELSE IF Head(s) \in SpaceChars THEN StrStrip(Tail(s))
    ELSE IF CharAt(s, Len(s)) \in SpaceChars THEN StrStrip(Slice(s, 1, Len(s) - 1))
    ELSE s

\* the end of the longest run of characters of class cls that starts at i
\* (i - 1 when s[i] is not of the class)
RunEnd(s, i, cls) ==
    LET j == Least(i, Len(s), LAMBDA k : CharAt(s, k) \notin cls)
    IN  IF j # 0 THEN j - 1 ELSE IF i > Len(s) THEN i - 1 ELSE Len(s)

\* the end of the longest run of characters not of class cls that starts at i
RunEndNot(s, i, cls) ==
    LET j == Least(i, Len(s), LAMBDA k : CharAt(s, k) \in cls)
    IN  IF j # 0 THEN j - 1 ELSE IF i > Len(s) THEN i - 1 ELSE Len(s)

\* s.split(): the whitespace-separated words of s
RECURSIVE StrSplit(_)
StrSplit(s) ==
    LET t == StrStrip(s)
        e == RunEndNot(t, 1, SpaceChars)
    IN  IF t = "" THEN <<>>
        ELSE <<Slice(t, 1, e)>> \o StrSplit(Slice(t, e + 1, Len(t)))

\* sep.join(words)
RECURSIVE StrJoin(_, _)
StrJoin(sep, words) ==
    IF words = <<>> THEN ""
    ELSE IF Len(words) = 1 THEN words[1]
    ELSE words[1] \o sep \o StrJoin(sep, Tail(words))

\* s.rsplit(sep, 1)[-1] for a one-character sep: what follows the last sep
RECURSIVE AfterLast(_, _)
AfterLast(s, sep) ==
    LET i == StrFind(s, sep, 1)
    IN  IF i = 0 THEN s ELSE AfterLast(Slice(s, i + 1, Len(s)), sep)

StartsWith(s, t) == Slice(s, 1, Len(t)) = t

Range(f) == {f[i] : i \in DOMAIN f}

-----------------------------------------------------------------------------
(* constants of main.py *)

BASE == "https://www.barrhavenvw.ca"
INV == "/en/used-inventory"
TTL == 1800
MAXSIZE == 128
MAX_RESULTS == 10

\* urllib.parse.urljoin(BASE, href), BASE having no path: an absolute href is
\* kept as it is, a scheme-relative one takes BASE's scheme, a path, a query
\* or a fragment is appended to BASE's origin
urljoin(base, href) ==
    IF StartsWith(href, "https://") \/ StartsWith(href, "http://") THEN href
    ELSE IF StartsWith(href, "//") THEN "https:" \o href
    ELSE IF href = "" \/ Head(href) \in {"/", "?", "#"} THEN base \o href
    ELSE base \o "/" \o href

-----------------------------------------------------------------------------
(* the listing page and the Link Extractor *)

QuoteChars == {"\"", "'"}

\* the raw markup of a page: each element written out
RECURSIVE Markup(_)
Markup(page) ==
    IF page = <<>> THEN ""
    ELSE (IF page[1].tag = "a"
          THEN "<a href=\"" \o page[1].href \o "\">view</a>"
          ELSE "<script>" \o page[1].text \o "</script>")
         \o Markup(Tail(page))

\* VEH_RX.search(s) from index `from`: [start, end] of the match, start = 0
\* when there is none. low is s.lower() (re.I). The pattern is the literal
\* path prefix, then [^"']+ (greedy: as long as it can be), then -id\d+.
RECURSIVE VehSearch(_, _, _)
VehSearch(s, low, from) ==
    LET p  == StrFind(low, "/en/used-inventory/", from)
        b  == p + Len("/en/used-inventory/")
        qe == RunEndNot(s, b, QuoteChars)
        ks == {k \in (b + 1)..(qe - 3) :
                 /\ Slice(low, k, k + 2) = "-id"
                 /\ CharAt(s, k + 3) \in DigitChars}
        k  == CHOOSE x \in ks : \A y \in ks : y <= x
    IN  IF p = 0 THEN [start |-> 0, end |-> 0]
        ELSE IF ks = {} THEN VehSearch(s, low, p + 1)
        ELSE [start |-> p, end |-> RunEnd(s, k + 3, DigitChars)]

\* [m.group(0) for m in VEH_RX.finditer(s)]
RECURSIVE VehFindAll(_, _, _)
VehFindAll(s, low, from) ==
    LET m == VehSearch(s, low, from)
    IN  IF m.start = 0 THEN <<>>
        ELSE <<Slice(s, m.start, m.end)>> \o VehFindAll(s, low, m.end + 1)

\* links.add(x) on the insertion history of a set
SetAdd(l, x) == IF x \in Range(l) THEN l ELSE Append(l, x)

RECURSIVE SetAddAll(_, _)
SetAddAll(l, xs) == IF xs = <<>> THEN l ELSE SetAddAll(SetAdd(l, xs[1]), Tail(xs))

\* list(links): a set of str iterates in hash order, which the process's hash
\* seed fixes and the insertion order does not; the orders modelled are the
\* rotations of the insertion order
SetOrder(l, seed) ==
    IF l = <<>> THEN <<>>
    ELSE LET k == seed % Len(l)
         IN  SubSeq(l, k + 1, Len(l)) \o SubSeq(l, 1, k)

\* s.select("a[href*='/en/used-inventory/']") with VEH_RX.search(href): the
\* hrefs the first loop canonicalises and adds
RECURSIVE AnchorLinks(_)
AnchorLinks(page) ==
    IF page = <<>> THEN <<>>
    ELSE (IF /\ page[1].tag = "a"
             /\ Contains(page[1].href, "/en/used-inventory/")
             /\ VehSearch(page[1].href, StrLower(page[1].href), 1).start # 0
          THEN <<urljoin(BASE, page[1].href)>>
          ELSE <<>>)
         \o AnchorLinks(Tail(page))

RECURSIVE JoinAll(_)
JoinAll(ms) == IF ms = <<>> THEN <<>> ELSE <<urljoin(BASE, ms[1])>> \o JoinAll(Tail(ms))

\* the order in which extract_vehicle_links adds to the set: the anchors, then
\* the matches of VEH_RX in the raw markup
Discovered(page) ==
    LET html == Markup(page)
    IN  SetAddAll(SetAddAll(<<>>, AnchorLinks(page)),
                  JoinAll(VehFindAll(html, StrLower(html), 1)))

extract_vehicle_links(page, seed) == SetOrder(Discovered(page), seed)

-----------------------------------------------------------------------------
(* the candidate filter of inventory_search *)

\* q = text or " ".join([x for x in [year, make, model] if x])
RECURSIVE TruthyOnes(_)
TruthyOnes(xs) ==
    IF xs = <<>> THEN <<>>
    ELSE (IF Truthy(xs[1]) THEN <<xs[1].v>> ELSE <<>>) \o TruthyOnes(Tail(xs))

QueryOf(p) ==
    IF Truthy(p.text) THEN p.text.v
    ELSE StrJoin(" ", TruthyOnes(<<p.year, p.make, p.model>>))

\* terms = [t.lower() for t in (q or "").split()]
RECURSIVE LowerAll(_)
LowerAll(ws) == IF ws = <<>> THEN <<>> ELSE <<StrLower(ws[1])>> \o LowerAll(Tail(ws))

TermsOf(p) == LowerAll(StrSplit(QueryOf(p)))

\* a bug keep could have: one matching term is enough
keepAny(u, terms) ==
    \/ terms = <<>>
    \/ \E i \in DOMAIN terms :
          Contains(StrLower(StrReplace(AfterLast(u, "/"), "-", " ")), terms[i])

keep(u, terms) ==
    IF terms = <<>> THEN TRUE
    ELSE LET slug == StrLower(StrReplace(AfterLast(u, "/"), "-", " "))
         IN  \A i \in 1..Len(terms) : Contains(slug, terms[i])

\* [u for u in urls if keep(u)]
RECURSIVE FilterUrls(_, _)
FilterUrls(urls, terms) ==
    IF urls = <<>> THEN <<>>
    ELSE (IF keep(urls[1], terms) THEN <<urls[1]>> ELSE <<>>)
         \o FilterUrls(Tail(urls), terms)

-----------------------------------------------------------------------------
(* numbers in text *)

DigitVal ==
    "0" :> 0 @@ "1" :> 1 @@ "2" :> 2 @@ "3" :> 3 @@ "4" :> 4 @@
    "5" :> 5 @@ "6" :> 6 @@ "7" :> 7 @@ "8" :> 8 @@ "9" :> 9

DigitStr == <<"0", "1", "2", "3", "4", "5", "6", "7", "8", "9">>

IsDigits(s) == s # "" /\ \A i \in 1..Len(s) : CharAt(s, i) \in DigitChars

\* the value of a run of decimal digits ("" is 0)
RECURSIVE DigitsVal(_)
DigitsVal(s) ==
    IF s = "" THEN 0
    ELSE 10 * DigitsVal(Slice(s, 1, Len(s) - 1)) + DigitVal[CharAt(s, Len(s))]

\* str(n) of an int
RECURSIVE NatStr(_)
NatStr(n) == IF n < 10 THEN DigitStr[n + 1] ELSE NatStr(n \div 10) \o DigitStr[(n % 10) + 1]

IntStr(n) == IF n < 0 THEN "-" \o NatStr(-n) ELSE NatStr(n)

\* f"{n:,}"
RECURSIVE NatCommas(_)
NatCommas(n) ==
    IF n < 1000 THEN NatStr(n)
    ELSE LET r == n % 1000
         IN  NatCommas(n \div 1000) \o ","
             \o (IF r < 10 THEN "00" ELSE IF r < 100 THEN "0" ELSE "") \o NatStr(r)

IntCommas(n) == IF n < 0 THEN "-" \o NatCommas(-n) ELSE NatCommas(n)

\* a result that may be an exception: exc is "" or str(e)
Ok(x) == [exc |-> "", val |-> x]
Raise(msg) == [exc |-> msg, val |-> PyNone]

\* the sign and the rest of a numeral
Unsigned(s) == IF s # "" /\ Head(s) \in {"+", "-"} THEN Tail(s) ELSE s
SignOf(s) == IF s # "" /\ Head(s) = "-" THEN -1 ELSE 1

\* int(s): an optional sign and decimal digits, anything else a ValueError
PyIntOf(s) ==
    IF IsDigits(Unsigned(s)) THEN Ok(SignOf(s) * DigitsVal(Unsigned(s)))
    ELSE Raise("invalid literal for int() with base 10: '" \o s \o "'")

\* int(float(s)): an optional sign, digits with at most one point and one digit
\* at least; the value is cut to its integer part
PyIntOfFloat(s) ==
    LET u   == Unsigned(s)
        dot == StrFind(u, ".", 1)
        ip  == IF dot = 0 THEN u ELSE Slice(u, 1, dot - 1)
        fp  == IF dot = 0 THEN "" ELSE Slice(u, dot + 1, Len(u))
    IN  IF /\ (ip = "" \/ IsDigits(ip))
           /\ (fp = "" \/ IsDigits(fp))
           /\ (ip # "" \/ fp # "")
        THEN Ok(SignOf(s) * DigitsVal(ip))
        ELSE Raise("could not convert string to float: '" \o s \o "'")

\* str(x) of a str or an int (a dict or a list prints as its repr, which no
\* numeral parser accepts)
PyStrOf(x) ==
    CASE x.t = "str" -> x.v
      [] x.t = "int" -> IntStr(x.v)
      [] OTHER       -> "{...}"

NumChars == DigitChars \cup {",", "."}

\* whether a distance unit (km, kilometre(s), kilometer(s); re.I) starts at i
UnitAt(low, i) ==
    \/ Slice(low, i, i + 1) = "km"
    \/ Slice(low, i, i + 8) = "kilometre"
    \/ Slice(low, i, i + 8) = "kilometer"

\* group(1) of re.search(r"([\d,\.]+)\s*(?:km|kilometres?|kilometers?)", s, re.I)
\* "" when there is no match
OdoAt(s, low, i) ==
    /\ CharAt(s, i) \in NumChars
    /\ UnitAt(low, RunEnd(s, RunEnd(s, i, NumChars) + 1, SpaceChars) + 1)

OdoSearch(s, low) ==
    LET i == Least(1, Len(s), LAMBDA k : OdoAt(s, low, k))
    IN  IF i = 0 THEN "" ELSE Slice(s, i, RunEnd(s, i, NumChars))

\* int(float(m.group(1).replace(",", ""))), g being group 1 ("" without a match)
AsPyInt(n) == IF n.exc # "" THEN n ELSE Ok(PyInt(n.val))

KmOf(g) ==
    IF g = "" THEN Ok(PyNone) ELSE AsPyInt(PyIntOfFloat(StrReplace(g, ",", "")))

\* norm_km(txt) of a str or None
norm_km(txt) ==
    IF ~Truthy(txt) THEN Ok(PyNone) ELSE KmOf(OdoSearch(txt.v, StrLower(txt.v)))

\* _clean_text(t): whitespace runs collapsed, ends stripped
_clean_text(t) == StrJoin(" ", StrSplit(t))

\* s.title()
RECURSIVE TitleFrom(_, _, _)
TitleFrom(s, lo, hi) ==
    IF lo > hi THEN ""
    ELSE IF lo = hi
         THEN (IF CharAt(s, lo) \notin AlphaChars THEN CharAt(s, lo)
               ELSE IF CharAt(s, lo - 1) \in AlphaChars THEN LowerChar(CharAt(s, lo))
               ELSE UpperChar(CharAt(s, lo)))
    ELSE TitleFrom(s, lo, (lo + hi) \div 2) \o TitleFrom(s, ((lo + hi) \div 2) + 1, hi)

StrTitle(s) == TitleFrom(s, 1, Len(s))

-----------------------------------------------------------------------------
(* the detail document                                                     *)
(*                                                                         *)
(* doc.status  "ok", or "fail" with doc.err the fetch's exception          *)
(* doc.h       what select_one("h1, .title, meta[property='og:title']")    *)
(*             finds: [kind "none"], [kind "h1", text] or                  *)
(*             [kind "meta", content]                                      *)
(* doc.ld      the application/ld+json scripts, each [ok, data]: ok is     *)
(*             whether json.loads accepts its text, data the parsed value  *)
(* doc.body    the blocks of the page in order: an element [tag, text,     *)
(*             sib] (sib: the text of the dd/td that follows a dt/th, or   *)
(*             None) or a section [tag "section", h2, elems]               *)
(* doc.carfax  the href of the first a[href*='carfax'], or None            *)
(***************************************************************************)

LABELS_PRICE == <<"purchase price", "price", "our price", "dealer price", "internet price">>
LABELS_MILE  == <<"kilometres", "kilometers", "odometer", "km">>
LABELS_COLOR == <<"exterior colour", "exterior color", "colour", "color">>
LABELS_STOCK == <<"stock #", "stock number", "stock", "stk">>

\* soup.find_all(...): every element of the page, sections opened
RECURSIVE AllElems(_)
AllElems(body) ==
    IF body = <<>> THEN <<>>
    ELSE (IF body[1].tag = "section" THEN body[1].elems ELSE <<body[1]>>)
         \o AllElems(Tail(body))

\* the first section whose h2 contains the word, <<>> when there is none
RECURSIVE SectionWith(_, _)
SectionWith(body, word) ==
    IF body = <<>> THEN <<>>
    ELSE IF body[1].tag = "section" /\ Contains(body[1].h2, word) THEN <<body[1]>>
    ELSE SectionWith(Tail(body), word)

_spec_scope(body) ==
    IF SectionWith(body, "Specification") # <<>>
        THEN SectionWith(body, "Specification")[1].elems
    ELSE IF SectionWith(body, "Vehicle") # <<>>
        THEN SectionWith(body, "Vehicle")[1].elems
    ELSE AllElems(body)

\* soup.get_text(" ", strip=True): the strings of the page in order (the
\* content of a script is not among them)
RECURSIVE ElemStrings(_)
ElemStrings(elems) ==
    IF elems = <<>> THEN <<>>
    ELSE (IF elems[1].text # "" THEN <<elems[1].text>> ELSE <<>>)
         \o (IF Truthy(elems[1].sib) THEN <<elems[1].sib.v>> ELSE <<>>)
         \o ElemStrings(Tail(elems))

RECURSIVE BodyStrings(_)
BodyStrings(body) ==
    IF body = <<>> THEN <<>>
    ELSE (IF body[1].tag = "section"
          THEN (IF body[1].h2 # "" THEN <<body[1].h2>> ELSE <<>>)
               \o ElemStrings(body[1].elems)
          ELSE ElemStrings(<<body[1]>>))
         \o BodyStrings(Tail(body))

FullText(doc) ==
    StrJoin(" ", (IF doc.h.kind = "h1" /\ doc.h.text # "" THEN <<doc.h.text>> ELSE <<>>)
                 \o BodyStrings(doc.body))

AnyLabelIn(low, labels) == \E i \in 1..Len(labels) : Contains(low, labels[i])

\* the length of the first alternative of "|".join(labels) that matches at i
RECURSIVE LabelLenAt(_, _, _)
LabelLenAt(low, i, labels) ==
    IF labels = <<>> THEN 0
    ELSE IF Slice(low, i, i + Len(labels[1]) - 1) = labels[1] THEN Len(labels[1])
    ELSE LabelLenAt(low, i, Tail(labels))

\* re.sub(r"(?i)(" + "|".join(labels) + r")\s*[:#-]?\s*", "", s), from i on
RECURSIVE StripLabels(_, _, _, _)
StripLabels(s, low, from, labels) ==
    LET i == Least(from, Len(s), LAMBDA k : LabelLenAt(low, k, labels) # 0)
        a == RunEnd(s, i + LabelLenAt(low, i, labels), SpaceChars)
        b == IF CharAt(s, a + 1) \in {":", "#", "-"} THEN a + 1 ELSE a
        c == RunEnd(s, b + 1, SpaceChars)
    IN  IF i = 0 THEN Slice(s, from, Len(s))
        ELSE Slice(s, from, i - 1) \o StripLabels(s, low, c + 1, labels)

\* the three loops of _find_labeled_value_in, each over the elements of its
\* tags in document order; <<>> when the loop returns nothing
RECURSIVE ScanTabular(_, _)
ScanTabular(elems, labels) ==
    IF elems = <<>> THEN <<>>
    ELSE IF /\ elems[1].tag \in {"dt", "th"}
            /\ AnyLabelIn(StrLower(elems[1].text), labels)
            /\ ~IsNone(elems[1].sib)
         THEN <<elems[1].sib>>
    ELSE ScanTabular(Tail(elems), labels)

RECURSIVE ScanItems(_, _)
ScanItems(elems, labels) ==
    IF elems = <<>> THEN <<>>
    ELSE IF elems[1].tag = "li" /\ AnyLabelIn(StrLower(elems[1].text), labels)
         THEN <<PyStr(StrStrip(StripLabels(elems[1].text, StrLower(elems[1].text), 1, labels)))>>
    ELSE ScanItems(Tail(elems), labels)

RECURSIVE ScanBlocks(_, _)
ScanBlocks(elems, labels) ==
    IF elems = <<>> THEN <<>>
    ELSE IF /\ elems[1].tag \in {"div", "span", "p"}
            /\ AnyLabelIn(StrLower(elems[1].text), labels)
            /\ Contains(elems[1].text, ":")
         THEN LET t == elems[1].text
              IN  <<PyStr(StrStrip(Slice(t, StrFind(t, ":", 1) + 1, Len(t))))>>
    ELSE ScanBlocks(Tail(elems), labels)

_find_labeled_value_in(scope, labels) ==
    IF ScanTabular(scope, labels) # <<>> THEN ScanTabular(scope, labels)[1]
    ELSE IF ScanItems(scope, labels) # <<>> THEN ScanItems(scope, labels)[1]
    ELSE IF ScanBlocks(scope, labels) # <<>> THEN ScanBlocks(scope, labels)[1]
    ELSE PyNone

-----------------------------------------------------------------------------
(* structured metadata *)

TypeName(x) == IF x.t = "None" THEN "NoneType" ELSE x.t

NoAttr(x, attr) == Raise("'" \o TypeName(x) \o "' object has no attribute '" \o attr \o "'")

NoVehicle ==
    [found |-> FALSE, price |-> PyNone, stock_number |-> PyNone,
     color |-> PyNone, mileage_km |-> PyNone]

\* lines 113-117: the mileage of a node, None when absent or not an int
LdMileage(n) ==
    LET m0 == PyOr(DictGet(n, "mileage"), DictGet(n, "vehicleMileage"))
        m1 == IF m0.t = "dict" THEN DictGet(m0, "value") ELSE m0
        r  == PyIntOf(StrReplace(PyStrOf(m1), ",", ""))
    IN  IF Truthy(m1) /\ r.exc = "" THEN PyInt(r.val) ELSE PyNone

\* lines 106-118: the dict built from a node of type vehicle or product
LdVehicle(n) ==
    LET o0     == PyOr(DictGet(n, "offers"), PyDict(<<>>))
        offers == IF o0.t = "list" THEN o0.v[1] ELSE o0
        ps     == PyOr(DictGet(offers, "priceSpecification"), PyDict(<<>>))
        price  == PyOr(DictGet(offers, "price"), DictGet(ps, "price"))
        pn     == PyIntOfFloat(StrReplace(PyStrOf(price), ",", ""))
    IN  IF offers.t # "dict" THEN NoAttr(offers, "get")
        ELSE IF ~Truthy(DictGet(offers, "price")) /\ ps.t # "dict" THEN NoAttr(ps, "get")
        ELSE IF Truthy(price) /\ pn.exc # "" THEN pn
        ELSE Ok([found        |-> TRUE,
                 price        |-> IF Truthy(price)
                                  THEN PyStr("$" \o IntCommas(pn.val)) ELSE PyNone,
                 stock_number |-> PyOr(PyOr(DictGet(n, "sku"), DictGet(n, "mpn")),
                                       DictGet(offers, "sku")),
                 color        |-> DictGet(n, "color"),
                 mileage_km   |-> LdMileage(n)])

\* lines 104-118: the first node of type vehicle or product
RECURSIVE LdNodes(_)
LdNodes(nodes) ==
    IF nodes = <<>> THEN Ok(NoVehicle)
    ELSE LET n  == nodes[1]
             ty == PyOr(DictGet(n, "@type"), PyStr(""))
         IN  IF n.t # "dict" THEN NoAttr(n, "get")
             ELSE IF ty.t # "str" THEN NoAttr(ty, "lower")
             ELSE IF StrLower(ty.v) \in {"vehicle", "product"} THEN LdVehicle(n)
             ELSE LdNodes(Tail(nodes))

\* _jsonld_vehicle(soup) on the ld+json scripts of the page
RECURSIVE _jsonld_vehicle(_)
_jsonld_vehicle(tags) ==
    IF tags = <<>> THEN Ok(NoVehicle)
    ELSE IF ~tags[1].ok THEN _jsonld_vehicle(Tail(tags))
    ELSE LET r == LdNodes(IF tags[1].data.t = "list" THEN tags[1].data.v
                          ELSE <<tags[1].data>>)
         IN  IF r.exc # "" \/ r.val.found THEN r ELSE _jsonld_vehicle(Tail(tags))

-----------------------------------------------------------------------------
(* the regular expressions of enrich_vehicle *)

IsWordAt(s, i) == i >= 1 /\ i <= Len(s) /\ CharAt(s, i) \in WordChars

\* \b between s[i-1] and s[i]
BoundaryAt(s, i) == IsWordAt(s, i - 1) # IsWordAt(s, i)

\* re.search(r"\b(20\d{2})\b", s): group(1), "" when there is no match
YearAt(s, i) ==
    /\ Slice(s, i, i + 1) = "20"
    /\ CharAt(s, i + 2) \in DigitChars
    /\ CharAt(s, i + 3) \in DigitChars
    /\ BoundaryAt(s, i)
    /\ BoundaryAt(s, i + 4)

YearSearch(s) ==
    LET i == Least(1, Len(s), LAMBDA k : YearAt(s, k))
    IN  IF i = 0 THEN "" ELSE Slice(s, i, i + 3)

\* re.search(r"\$?\s*([\d,][\d,\.]*)", s): group(1), "" when there is no match
MoneySearch(s) ==
    LET i == Least(1, Len(s), LAMBDA k : CharAt(s, k) \in DigitChars \cup {","})
    IN  IF i = 0 THEN "" ELSE Slice(s, i, RunEnd(s, i + 1, NumChars))

Min(a, b) == IF a < b THEN a ELSE b

\* [A-Za-z]{0,2}[-]?\d{3,7}[A-Za-z]? at i with n letters: the end, 0 if none
StockLabelEnd(s, i, n) ==
    LET d0  == i + n
        d1  == IF CharAt(s, d0) = "-" THEN d0 + 1 ELSE d0
        run == RunEnd(s, d1, DigitChars) - d1 + 1
        e   == d1 + Min(7, run) - 1
    IN  IF (\A k \in i..(i + n - 1) : k <= Len(s) /\ CharAt(s, k) \in AlphaChars) /\ run >= 3
        THEN (IF CharAt(s, e + 1) \in AlphaChars THEN e + 1 ELSE e)
        ELSE 0

\* re.search(r"[A-Za-z]{0,2}[-]?\d{3,7}[A-Za-z]?", s): group(0), "" if none
StockLabelSearch(s) ==
    LET i == Least(1, Len(s), LAMBDA k : \E n \in 0..2 : StockLabelEnd(s, k, n) # 0)
    IN  IF i = 0 THEN ""
        ELSE IF StockLabelEnd(s, i, 2) # 0 THEN Slice(s, i, StockLabelEnd(s, i, 2))
        ELSE IF StockLabelEnd(s, i, 1) # 0 THEN Slice(s, i, StockLabelEnd(s, i, 1))
        ELSE Slice(s, i, StockLabelEnd(s, i, 0))

\* [A-Za-z]{0,3}\d{2}-\d{4,6}[A-Za-z]? at c: the end, 0 if none; bounded: the
\* match must end at a \b
DashedEnd(s, c, bounded) ==
    LET n   == RunEnd(s, c, AlphaChars) - c + 1
        d   == c + n
        run == RunEnd(s, d + 3, DigitChars) - (d + 3) + 1
        e   == d + 2 + Min(6, run)
        e2  == IF CharAt(s, e + 1) \in AlphaChars THEN e + 1 ELSE e
    IN  IF /\ n <= 3
           /\ CharAt(s, d) \in DigitChars
           /\ CharAt(s, d + 1) \in DigitChars
           /\ CharAt(s, d + 2) = "-"
           /\ run >= 4
           /\ (bounded => BoundaryAt(s, e2 + 1))
        THEN e2
        ELSE 0

\* where the value may start after "Stock" at p: past (\s+#| Number)?\s*[:#]?\s*
StockValueAt(s, pos) ==
    LET x == RunEnd(s, pos, SpaceChars) + 1
        y == IF CharAt(s, x) \in {":", "#"} THEN x + 1 ELSE x
    IN  RunEnd(s, y, SpaceChars) + 1

\* the labelled stock pattern of line 187 (re.I): group(1), "" if none
RECURSIVE StockFullSearch(_, _, _)
StockFullSearch(s, low, from) ==
    LET p  == StrFind(low, "stock", from)
        a  == RunEnd(s, p + 5, SpaceChars)
        o1 == IF a >= p + 5 /\ CharAt(s, a + 1) = "#" THEN a + 2 ELSE 0
        o2 == IF Slice(low, p + 5, p + 11) = " number" THEN p + 12 ELSE 0
        o3 == p + 5
        c1 == IF o1 = 0 THEN 0 ELSE StockValueAt(s, o1)
        c2 == IF o2 = 0 THEN 0 ELSE StockValueAt(s, o2)
        c3 == StockValueAt(s, o3)
    IN  IF p = 0 THEN ""
        ELSE IF c1 # 0 /\ DashedEnd(s, c1, FALSE) # 0 THEN Slice(s, c1, DashedEnd(s, c1, FALSE))
        ELSE IF c2 # 0 /\ DashedEnd(s, c2, FALSE) # 0 THEN Slice(s, c2, DashedEnd(s, c2, FALSE))
        ELSE IF DashedEnd(s, c3, FALSE) # 0 THEN Slice(s, c3, DashedEnd(s, c3, FALSE))
        ELSE StockFullSearch(s, low, p + 1)

\* the strict dashed pattern of line 193: group(0), "" if none
DashedSearch(s) ==
    LET c == Least(1, Len(s), LAMBDA k : BoundaryAt(s, k) /\ DashedEnd(s, k, TRUE) # 0)
    IN  IF c = 0 THEN "" ELSE Slice(s, c, DashedEnd(s, c, TRUE))

VinChars == (UpperChars \ {"I", "O", "Q"}) \cup DigitChars

\* VIN_RX.search(s): group(0), "" if none
VinAt(s, i) ==
    /\ BoundaryAt(s, i)
    /\ BoundaryAt(s, i + 17)
    /\ \A k \in i..(i + 16) : CharAt(s, k) \in VinChars

VinSearch(s) ==
    LET i == Least(1, Len(s) - 16, LAMBDA k : VinAt(s, k))
    IN  IF i = 0 THEN "" ELSE Slice(s, i, i + 16)

TrimChars == AlphaChars \cup DigitChars \cup {"-", " "}

\* the group that ends the trim: \s+ and a stock number, VIN, Automatic or
\* Bodystyle
TrimTermAt(s, low, t) ==
    LET u == RunEnd(s, t, SpaceChars) + 1
    IN  /\ u > t
        /\ \/ Slice(low, u, u + 2) = "vin"
           \/ Slice(low, u, u + 8) = "automatic"
           \/ Slice(low, u, u + 8) = "bodystyle"
           \/ /\ CharAt(s, u) \in DigitChars
              /\ CharAt(s, u + 1) \in DigitChars
              /\ CharAt(s, u + 2) = "-"
              /\ RunEnd(s, u + 3, DigitChars) >= u + 6

\* TRIM_RX.search(s): group(1), "" if none
RECURSIVE TrimSearch(_, _, _)
TrimSearch(s, low, from) ==
    LET p  == StrFind(low, "trim", from)
        g0 == RunEnd(s, p + 4, SpaceChars) + 1
        ce == RunEnd(s, g0, TrimChars)
        es == {e \in g0..ce : TrimTermAt(s, low, e + 1)}
        e  == CHOOSE x \in es : \A y \in es : x <= y
    IN  IF p = 0 THEN ""
        ELSE IF g0 > p + 4 /\ es # {} THEN Slice(s, g0, e)
        ELSE TrimSearch(s, low, p + 1)

\* m.group(1).split(" - ")[0].strip()
TrimOf(g) ==
    LET i == StrFind(g, " - ", 1)
    IN  StrStrip(IF i = 0 THEN g ELSE Slice(g, 1, i - 1))

ColorChars == AlphaChars \cup {" ", "-"}

\* \d{1,3},?\d{0,3}\s*KM at t
KmFigureAt(s, low, t) ==
    \E a \in 1..3 : \E cm \in 0..1 : \E b \in 0..3 :
        /\ RunEnd(s, t, DigitChars) >= t + a - 1
        /\ (cm = 1 => CharAt(s, t + a) = ",")
        /\ RunEnd(s, t + a + cm, DigitChars) >= t + a + cm + b - 1
        /\ Slice(low, RunEnd(s, t + a + cm + b, SpaceChars) + 1,
                       RunEnd(s, t + a + cm + b, SpaceChars) + 2) = "km"

\* the group that ends the colour on line 199
ColorTermAt(s, low, t) ==
    \/ CharAt(s, t) \in SpaceChars /\ CharAt(s, t + 1) \in SpaceChars
    \/ Slice(low, t, t + 3) = "int."
    \/ Slice(low, t, t + 7) = "interior"
    \/ Slice(low, t, t + 9) = "drivetrain"
    \/ Slice(low, t, t + 4) = "frame"
    \/ Slice(low, t, t + 8) = "bodystyle"
    \/ Slice(low, t, t + 6) = "options"
    \/ KmFigureAt(s, low, t)

\* the search of line 199: group(1), "" if none
RECURSIVE ColorSearch(_, _, _)
ColorSearch(s, low, from) ==
    LET p  == StrFind(low, "ext", from)
        a  == IF CharAt(s, p + 3) = "." THEN p + 4 ELSE p + 3
        b  == RunEnd(s, a, SpaceChars) + 1
        c  == RunEnd(s, b + 5, SpaceChars) + 1
        ce == RunEnd(s, c + 1, ColorChars)
        es == {e \in (c + 1)..ce : ColorTermAt(s, low, e + 1)}
        e  == CHOOSE x \in es : \A y \in es : x <= y
    IN  IF p = 0 THEN ""
        ELSE IF /\ Slice(low, b, b + 4) = "color"
                /\ CharAt(s, c) \in AlphaChars
                /\ es # {}
             THEN Slice(s, c, e)
        ELSE ColorSearch(s, low, p + 1)

-----------------------------------------------------------------------------
(* enrich_vehicle *)

Absent == [t |-> "absent"]

\* lines 140-145
NewRecord(url, make, model, year) ==
    [url |-> PyStr(url), title |-> PyNone, year |-> year, make |-> make,
     model |-> model, trim |-> PyStr(""), price |-> PyNone, color |-> PyNone,
     mileage_km |-> PyNone, stock_number |-> PyNone, vin |-> PyNone,
     carfax_url |-> PyNone, error |-> Absent]

\* a step of the try block: the record so far, and the exception if it raised
Done(v) == [exc |-> "", val |-> v]
Raised(v, msg) == [exc |-> msg, val |-> v]
Run(r, Step(_, _), doc) == IF r.exc # "" THEN r ELSE Step(r.val, doc)

\* an assignment v[k] = n whose right-hand side may raise
SetOrRaise(v, k, n) ==
    IF n.exc # "" THEN Raised(v, n.exc) ELSE Done([v EXCEPT ![k] = n.val])

\* line 150: the title read from the element found
TitleOf(doc) ==
    CASE doc.h.kind = "h1"   -> PyStr(doc.h.text)
      [] doc.h.kind = "meta" -> doc.h.content
      [] OTHER               -> PyStr("")

_mm_from_title(title) ==
    LET parts == StrSplit(title.v)
    IN  IF ~Truthy(title) THEN <<PyNone, PyNone>>
        ELSE IF Len(parts) >= 3 /\ IsDigits(parts[1])
             THEN <<PyStr(parts[2]), PyStr(parts[3])>>
        ELSE <<PyNone, PyNone>>

\* lines 151-156, title being the title read at line 150
TitleInto(v, title, y, mm) ==
    Done([v EXCEPT !.title = PyOr(title, v.url),
                   !.year  = IF y # "" THEN PyInt(DigitsVal(y)) ELSE @,
                   !.make  = PyOr(@, mm[1]),
                   !.model = PyOr(@, mm[2])])

TitleRead(v, title) ==
    TitleInto(v, title, YearSearch(IF Truthy(title) THEN title.v ELSE ""),
              _mm_from_title(title))

\* lines 149-156
TitleStep(v, doc) == TitleRead(v, TitleOf(doc))

\* lines 160-164: the merge of the JSON-LD hints into the record
MergeJsonLd(v, j) ==
    IF ~j.found THEN v
    ELSE [v EXCEPT !.price        = PyOr(j.price, @),
                   !.stock_number = PyOr(j.stock_number, @),
                   !.color        = PyOr(j.color, @),
                   !.mileage_km   = PyOr(j.mileage_km, @)]

\* lines 159-164, j being what _jsonld_vehicle gave or raised
JsonLdInto(v, j) ==
    IF j.exc # "" THEN Raised(v, j.exc) ELSE Done(MergeJsonLd(v, j.val))

\* lines 158-164
JsonLdStep(v, doc) == JsonLdInto(v, _jsonld_vehicle(doc.ld))

\* line 174, m2 being group 1 of the match ("" without one)
PriceSet(v, m2) ==
    IF m2 # "" THEN [v EXCEPT !.price = PyStr("$" \o StrReplace(m2, ",,", ","))]
    ELSE v

\* a bug the price step could have: the rebate test left out
PriceFromAnyLabel(v, price_txt) ==
    IF Truthy(price_txt) THEN PriceSet(v, MoneySearch(price_txt.v)) ELSE v

\* lines 172-174
PriceFromLabel(v, price_txt) ==
    IF Truthy(price_txt) /\ ~Contains(StrLower(price_txt.v), "rebate")
    THEN PriceSet(v, MoneySearch(price_txt.v))
    ELSE v

\* lines 175-176
MileageFromLabel(v, odo_txt) ==
    IF Truthy(odo_txt) /\ IsNone(v.mileage_km)
    THEN SetOrRaise(v, "mileage_km", norm_km(odo_txt))
    ELSE Done(v)

\* line 178, ws being the words of the cleaned text
ColorSet(v, ws) == [v EXCEPT !.color = PyStr(StrTitle(ws[Len(ws)]))]

\* lines 177-178
ColorFromLabel(v, color_txt) ==
    IF Truthy(color_txt) THEN ColorSet(v, StrSplit(_clean_text(color_txt.v)))
    ELSE v

\* line 181, m3 being the match ("" without one)
StockSet(v, m3, stock_txt) ==
    [v EXCEPT !.stock_number =
        IF m3 # "" THEN PyStr(m3) ELSE PyStr(_clean_text(stock_txt.v))]

\* lines 179-181
StockFromLabel(v, stock_txt) ==
    IF Truthy(stock_txt) /\ IsNone(v.stock_number)
    THEN StockSet(v, StockLabelSearch(stock_txt.v), stock_txt)
    ELSE v

\* lines 177-181
ColorStockFromLabel(v, scope) ==
    Done(StockFromLabel(ColorFromLabel(v, _find_labeled_value_in(scope, LABELS_COLOR)),
                        _find_labeled_value_in(scope, LABELS_STOCK)))

\* lines 167-181
LabelsIn(v, scope) ==
    Run(MileageFromLabel(PriceFromLabel(v, _find_labeled_value_in(scope, LABELS_PRICE)),
                         _find_labeled_value_in(scope, LABELS_MILE)),
        ColorStockFromLabel, scope)

\* lines 166-181
LabelStep(v, doc) == LabelsIn(v, _spec_scope(doc.body))

\* line 185, m being the match ("" without one)
VinSet(v, m) == IF m # "" THEN [v EXCEPT !.vin = PyStr(m)] ELSE v

\* lines 184-185
VinFromText(v, full) == VinSet(v, VinSearch(full))

\* lines 193-195
StockFromDashed(v, m) == IF m # "" THEN [v EXCEPT !.stock_number = PyStr(m)] ELSE v

\* lines 189-195, m being group 1 of the labelled match ("" without one)
StockFromMatch(v, m, full) ==
    IF m # "" THEN [v EXCEPT !.stock_number = PyStr(m)]
    ELSE StockFromDashed(v, DashedSearch(full))

\* lines 186-195
StockFromText(v, full, low) ==
    IF Truthy(v.stock_number) THEN v
    ELSE StockFromMatch(v, StockFullSearch(full, low, 1), full)

\* line 197, g being group 1 of the match ("" without one)
TrimSet(v, g) == IF g # "" THEN [v EXCEPT !.trim = PyStr(TrimOf(g))] ELSE v

\* lines 196-197
TrimFromText(v, full, low) == TrimSet(v, TrimSearch(full, low, 1))

\* lines 200-201, mc being group 1 of the match ("" without one)
ColorFromMatch(v, mc) ==
    IF mc # "" THEN [v EXCEPT !.color = PyStr(StrTitle(StrStrip(mc)))] ELSE v

\* lines 198-201: mc is assigned only under `if not v["color"]`, and read by
\* `if mc:` whatever the colour: with a colour already found the read raises
\* UnboundLocalError
ColorFromText(v, full, low) ==
    IF Truthy(v.color)
    THEN Raised(v, "cannot access local variable 'mc' where it is not associated with a value")
    ELSE Done(ColorFromMatch(v, ColorSearch(full, low, 1)))

\* line 204, g being group 1 of the match
MileageSet(v, g) ==
    IF g = "" THEN Done(v)
    ELSE SetOrRaise(v, "mileage_km", KmOf(g))

\* lines 202-204
MileageFromText(v, full, low) ==
    IF ~IsNone(v.mileage_km) THEN Done(v) ELSE MileageSet(v, OdoSearch(full, low))

MileageFromTextOf(v, text) == MileageFromText(v, text.full, text.low)

\* lines 198-204
ColorMileageFromText(v, text) ==
    Run(ColorFromText(v, text.full, text.low), MileageFromTextOf, text)

\* lines 184-204, low being the text in lower case, as re.I reads it
TextInto(v, full, low) ==
    ColorMileageFromText(
        TrimFromText(StockFromText(VinFromText(v, full), full, low), full, low),
        [full |-> full, low |-> low])

TextRead(v, full) == TextInto(v, full, StrLower(full))

\* lines 183-204
FullTextStep(v, doc) == TextRead(v, FullText(doc))

\* lines 206-208
CarfaxStep(v, doc) ==
    IF IsNone(doc.carfax) THEN Done(v)
    ELSE Done([v EXCEPT !.carfax_url = PyStr(urljoin(BASE, doc.carfax.v))])

\* lines 146-211: the try block, doc being what fetch(url) gives
TryBlock(v, doc) ==
    IF doc.status # "ok" THEN Raised(v, doc.err)
    ELSE Run(Run(Run(Run(TitleStep(v, doc), JsonLdStep, doc), LabelStep, doc),
                 FullTextStep, doc), CarfaxStep, doc)

\* a bug the except clause could have: the exception swallowed, no error set
CaughtSilently(r) == r.val

\* lines 209-211
Caught(r) == IF r.exc # "" THEN [r.val EXCEPT !.error = PyStr(r.exc)] ELSE r.val

enrich_vehicle(url, doc, make, model, year) ==
    Caught(TryBlock(NewRecord(url, make, model, year), doc))

-----------------------------------------------------------------------------
(* the inputs the functions are applied to *)

MaxNodes == 3
MaxElems == 2
MaxSeed == 1

Anchor(href) == [tag |-> "a", href |-> href]
Script(text) == [tag |-> "script", text |-> text]

TiguanPath == "/en/used-inventory/2024-vw-tiguan-id123"
AtlasPath == "/en/used-inventory/2021-vw-atlas-id456"

\* what a listing page is made of: links to two vehicles in the forms the
\* site uses (relative, absolute, with a query), a link back to the listing,
\* and a script payload that names a vehicle
PageNodes ==
    { Anchor(TiguanPath),
      Anchor(BASE \o TiguanPath),
      Anchor(TiguanPath \o "?ref=home"),
      Anchor(AtlasPath),
      Anchor(INV \o "/"),
      Script("{\"url\":\"" \o TiguanPath \o "\"}") }

SeqsUpTo(S, n) == UNION {[1..k -> S] : k \in 0..n}

Pages == SeqsUpTo(PageNodes, MaxNodes)

Params(make, model, year, text) ==
    [make |-> make, model |-> model, year |-> year, text |-> text]

\* the query parameters of a search: each absent (None) or a string
ParamSets ==
    [make  : {PyNone, PyStr("Volkswagen")},
     model : {PyNone, PyStr("TIGUAN"), PyStr("atl")},
     year  : {PyNone, PyStr("2024")},
     text  : {PyNone, PyStr(""), PyStr("  "), PyStr("tiguan 2024"), PyStr("Comfortline")}]

\* the candidates a filter is applied to
CandidateUrls ==
    << BASE \o "/en/used-inventory/2024-volkswagen-tiguan-comfortline-id123",
       BASE \o "/en/used-inventory/2024-volkswagen-atlas-id456",
       BASE \o TiguanPath \o "?ref=home",
       BASE \o "/en/used-inventory/2021-Volkswagen-Tiguan-id7" >>

Elem(tag, text) == [tag |-> tag, text |-> text, sib |-> PyNone]
Pair(tag, text, sib) == [tag |-> tag, text |-> text, sib |-> PyStr(sib)]
Section(h2, elems) == [tag |-> "section", h2 |-> h2, elems |-> elems]

\* what a detail page is made of
DocElems ==
    { Pair("dt", "Price", "$26,500"),
      Elem("li", "Price: $1,000 Rebate"),
      Elem("div", "Odometer: 45,230 km"),
      Elem("li", "Exterior Colour: Pearl White"),
      Pair("th", "Stock #", "26-0058A"),
      Elem("p", "VIN 3VV2B7AX5RM012345 Trim Comfortline Odometer 45,230 km") }

\* the bodies: the elements in a row, or the last one alone in the
\* specification section
DocBodies ==
    LET rows == SeqsUpTo(DocElems, MaxElems)
    IN  rows \cup
        { SubSeq(r, 1, Len(r) - 1)
            \o <<Section("Vehicle Specifications", <<r[Len(r)]>>)>> :
          r \in {x \in rows : Len(x) >= 2 /\ x[Len(x)] # x[1]} }

Json(data) == [ok |-> TRUE, data |-> data]
BadJson == [ok |-> FALSE]

VehicleNode ==
    PyDict(("@type" :> PyStr("Vehicle")) @@
           [offers |-> PyDict([price |-> PyStr("25000")]),
            sku |-> PyStr("A1234"), color |-> PyStr("Red"),
            mileage |-> PyInt(30000)])

NegativeNode ==
    PyDict(("@type" :> PyStr("Vehicle")) @@
           [vehicleMileage |-> PyDict([value |-> PyStr("-5")])])

CallNode ==
    PyDict(("@type" :> PyStr("Product")) @@
           [offers |-> PyList(<<PyDict([price |-> PyStr("call")])>>)])

SiteNode == PyDict("@type" :> PyStr("WebSite"))

ColorNode == PyDict(("@type" :> PyStr("vehicle")) @@ [color |-> PyStr("Red")])

\* the ld+json scripts of a detail page
DocLds ==
    { <<>>,
      <<Json(PyStr("text"))>>,
      <<BadJson, Json(VehicleNode)>>,
      <<Json(NegativeNode)>>,
      <<Json(CallNode)>>,
      <<Json(PyList(<<SiteNode, ColorNode>>))>> }

DocHeads ==
    { [kind |-> "none"],
      [kind |-> "h1", text |-> "2021 Volkswagen Tiguan"],
      [kind |-> "meta", content |-> PyStr("Used Golf")] }

FetchErrors == {"timeout"}

FailedDoc(err) ==
    [status |-> "fail", err |-> err, h |-> [kind |-> "none"], ld |-> <<>>,
     body |-> <<>>, carfax |-> PyNone]

Docs ==
    [status : {"ok"}, err : {""}, h : DocHeads, ld : DocLds, body : DocBodies,
     carfax : {PyNone, PyStr("/carfax/report?id=7")}]
    \cup {FailedDoc(e) : e \in FetchErrors}

\* what the caller passes for make, model and year
CallerArgs ==
    { Params(PyNone, PyNone, PyNone, PyNone),
      Params(PyStr("Volkswagen"), PyStr("Tiguan"), PyStr("2020"), PyNone) }

FnInputs ==
    [fn : {"extract_vehicle_links"}, page : Pages]
    \cup [fn : {"filter"}, urls : {CandidateUrls}, params : ParamSets]
    \cup [fn : {"enrich_vehicle"}, url : {BASE \o TiguanPath}, doc : Docs,
          args : CallerArgs]

-----------------------------------------------------------------------------
(* inventory_search: the requests, the site and the cache *)

MaxFailures == 2
MaxRequests == 2
MaxConcRequests == 3
TickStep == 1800
MaxTime == 1800
ListingSize == 11

Threads == {1, 2}

\* the searches that arrive
SearchParams ==
    { Params(PyNone, PyNone, PyNone, PyNone),
      Params(PyNone, PyStr("Atlas"), PyStr("2021"), PyNone) }

\* the search that two threads serve at once
ConcParams == {Params(PyNone, PyNone, PyNone, PyStr("tiguan"))}

\* the listing pages of the site: one naming two vehicles, the first in two
\* forms, and one naming more vehicles than a search enriches
MixedPage ==
    << Anchor(TiguanPath \o "?ref=home"), Anchor(AtlasPath),
       Script("{\"url\":\"" \o TiguanPath \o "\"}") >>

SinglePage == <<Anchor(BASE \o TiguanPath)>>

BigPage ==
    [i \in 1..ListingSize |-> Anchor("/en/used-inventory/2024-vw-tiguan-id" \o NatStr(i))]

\* the detail pages of the site
TiguanDoc ==
    [status |-> "ok", err |-> "",
     h |-> [kind |-> "h1", text |-> "2024 Volkswagen Tiguan"], ld |-> <<>>,
     body |-> <<Elem("p", "VIN 3VV2B7AX5RM012345 Odometer 45,230 km")>>,
     carfax |-> PyStr("/carfax/report?id=7")]

AtlasDoc ==
    [status |-> "ok", err |-> "", h |-> [kind |-> "none"],
     ld |-> <<Json(ColorNode)>>, body |-> <<>>, carfax |-> PyNone]

DetailPage(u) == IF Contains(StrLower(u), "atlas") THEN AtlasDoc ELSE TiguanDoc

\* what fetch(u) of a detail page may give: the page, or an exception
DetailOutcomes(u) == {DetailPage(u)} \cup {FailedDoc(e) : e \in FetchErrors}

\* f"{x}" of a str or None
PyFmt(x) == IF IsNone(x) THEN "None" ELSE x.v

\* line 234
KeyOf(p) ==
    "render|" \o PyFmt(p.make) \o "|" \o PyFmt(p.model) \o "|" \o PyFmt(p.year)
        \o "|" \o PyFmt(p.text)

\* TTLCache: key in cache
CacheHas(c, k, t) == k \in DOMAIN c /\ t < c[k].expires

\* a bug the store could have: a live entry is kept, the first writer wins
CacheSetIfAbsent(c, k, val, t, n) ==
    IF CacheHas(c, k, t) THEN c
    ELSE [x \in {y \in DOMAIN c : t < c[y].expires} \cup {k} |->
            IF x = k THEN [value |-> val, expires |-> t + TTL, stored |-> n]
            ELSE c[x]]

\* TTLCache: cache[k] = val at time t, the n-th write: the expired entries go,
\* a full cache drops its oldest entry, the entry is (re)written
CacheSet(c, k, val, t, n) ==
    LET live  == {x \in DOMAIN c : t < c[x].expires}
        evict == IF k \notin live /\ Cardinality(live) >= MAXSIZE
                 THEN {CHOOSE x \in live : \A y \in live : c[x].stored <= c[y].stored}
                 ELSE {}
    IN  [x \in (live \ evict) \cup {k} |->
            IF x = k THEN [value |-> val, expires |-> t + TTL, stored |-> n]
            ELSE c[x]]

\* a worker thread with no request
IdleReq ==
    [pc |-> "idle", params |-> Params(PyNone, PyNone, PyNone, PyNone), key |-> "",
     hit |-> FALSE, tries |-> <<>>, found |-> <<>>, urls |-> <<>>, docs |-> <<>>,
     out |-> <<>>, resp |-> <<>>]

Event(kind, t, key, value) ==
    [kind |-> kind, t |-> t, key |-> key, time |-> now, value |-> value]

Requests(l) == Cardinality({i \in DOMAIN l : l[i].kind \in {"hit", "miss"}})

\* lines 234-235: the lookup
Lookup(t, p, key) ==
    IF CacheHas(cache, key, now)
    THEN /\ req' = [req EXCEPT ![t] = [IdleReq EXCEPT !.pc = "done", !.params = p,
                                          !.key = key, !.hit = TRUE,
                                          !.resp = <<cache[key].value>>]]
         /\ log' = Append(log, Event("hit", t, key, cache[key].value))
    ELSE /\ req' = [req EXCEPT ![t] = [IdleReq EXCEPT !.pc = "listing", !.params = p,
                                          !.key = key]]
         /\ log' = Append(log, Event("miss", t, key, <<>>))

Receive(t) ==
    /\ req[t].pc = "idle"
    /\ \E p \in input.params : Lookup(t, p, KeyOf(p))
    /\ UNCHANGED <<now, cache, site, hashSeed, failures, input, output>>

\* fetch(url), ok being whether the GET succeeds
fetch(ok, page) == IF ok THEN Ok(page) ELSE Raise("HTTPError")

\* a bug fetch_rendered could have: no fallback to the plain fetch
fetch_renderedOnly(o, page) == fetch(o.rendered, page)

\* fetch_rendered(url), o being how the two fetches go
fetch_rendered(o, page) == IF o.rendered THEN Ok(page) ELSE fetch(o.plain, page)

FetchOutcomes ==
    { [rendered |-> TRUE, plain |-> TRUE], [rendered |-> FALSE, plain |-> TRUE],
      [rendered |-> FALSE, plain |-> FALSE] }

\* the GETs a listing fetch makes
Tries(o) == IF o.rendered THEN <<"rendered">>
            ELSE <<"rendered failed", IF o.plain THEN "plain" ELSE "plain failed">>

\* line 248: urls[:10]
Cap(urls) == SubSeq(urls, 1, Min(MAX_RESULTS, Len(urls)))

\* lines 239-247, found being what extract_vehicle_links returned
Candidates(t, o, found) ==
    /\ req' = [req EXCEPT ![t].pc = "enrich", ![t].tries = Tries(o), ![t].found = found,
                          ![t].urls = FilterUrls(found, TermsOf(req[t].params))]
    /\ UNCHANGED log

\* lines 237-247, html being what fetch_rendered returned or raised
Listed(t, o, html) ==
    IF html.exc # ""
    THEN /\ req' = [req EXCEPT ![t].pc = "failed", ![t].tries = Tries(o)]
         /\ log' = Append(log, Event("fail", t, req[t].key, <<>>))
    ELSE Candidates(t, o, extract_vehicle_links(html.val, hashSeed))

FetchListing(t) ==
    /\ req[t].pc = "listing"
    /\ \E o \in FetchOutcomes : Listed(t, o, fetch_rendered(o, site))
    /\ UNCHANGED <<now, cache, site, hashSeed, failures, input, output>>

\* line 248: one turn of the comprehension, d being what fetch(u) gives
Enriched(t, u, d) ==
    /\ d.status = "fail" => failures < MaxFailures
    /\ failures' = IF d.status = "fail" THEN failures + 1 ELSE failures
    /\ req' = [req EXCEPT
                 ![t].docs = Append(@, d),
                 ![t].out = Append(@, enrich_vehicle(u, d, req[t].params.make,
                                      req[t].params.model, req[t].params.year))]

Enrich(t) ==
    /\ req[t].pc = "enrich"
    /\ Len(req[t].out) < Len(Cap(req[t].urls))
    /\ \E d \in DetailOutcomes(req[t].urls[Len(req[t].out) + 1]) :
          Enriched(t, req[t].urls[Len(req[t].out) + 1], d)
    /\ UNCHANGED <<now, cache, site, hashSeed, log, input, output>>

\* lines 249-250
Store(t) ==
    /\ req[t].pc = "enrich"
    /\ Len(req[t].out) = Len(Cap(req[t].urls))
    /\ cache' = CacheSet(cache, req[t].key, req[t].out, now, Len(log) + 1)
    /\ req' = [req EXCEPT ![t].pc = "done", ![t].resp = <<req[t].out>>]
    /\ log' = Append(log, Event("store", t, req[t].key, req[t].out))
    /\ UNCHANGED <<now, site, hashSeed, failures, input, output>>

\* the response is sent; the thread is free
Return(t) ==
    /\ req[t].pc \in {"done", "failed"}
    /\ req' = [req EXCEPT ![t] = IdleReq]
    /\ UNCHANGED <<now, cache, site, hashSeed, failures, log, input, output>>

\* time passes
Tick ==
    /\ now + TickStep <= MaxTime
    /\ now' = now + TickStep
    /\ UNCHANGED <<cache, site, hashSeed, failures, req, log, input, output>>

ServiceAtRest ==
    /\ now = 0
    /\ cache = <<>>
    /\ failures = 0
    /\ req = [t \in Threads |-> IdleReq]
    /\ log = <<>>

\* the searches that may arrive
Searches(ps) == [fn |-> "inventory_search", params |-> ps]

\* searches served one at a time, of a listing that names two vehicles
Init ==
    /\ ServiceAtRest
    /\ site = MixedPage
    /\ hashSeed \in 0..MaxSeed
    /\ input = Searches(SearchParams)
    /\ output = <<>>

Next ==
    \/ Requests(log) < MaxRequests /\ Receive(1)
    \/ FetchListing(1)
    \/ Enrich(1)
    \/ Store(1)
    \/ Return(1)
    \/ Tick

Spec == Init /\ [][Next]_vars

\* one search of a listing that names more vehicles than a search enriches
InitCap ==
    /\ ServiceAtRest
    /\ site = BigPage
    /\ hashSeed \in 0..MaxSeed
    /\ input = Searches(SearchParams)
    /\ output = <<>>

NextCap ==
    \/ Requests(log) < 1 /\ Receive(1)
    \/ FetchListing(1)
    \/ Enrich(1)
    \/ Store(1)
    \/ Return(1)
    \/ Tick

SpecCap == InitCap /\ [][NextCap]_vars

\* searches served by two threads, of a listing that names one vehicle
InitConc ==
    /\ ServiceAtRest
    /\ site = SinglePage
    /\ hashSeed = 0
    /\ input = Searches(ConcParams)
    /\ output = <<>>

NextConc ==
    \/ Requests(log) < MaxConcRequests /\ \E t \in Threads : Receive(t)
    \/ \E t \in Threads : FetchListing(t)
    \/ \E t \in Threads : Enrich(t)
    \/ \E t \in Threads : Store(t)
    \/ \E t \in Threads : Return(t)
    \/ Tick

SpecConc == InitConc /\ [][NextConc]_vars

-----------------------------------------------------------------------------
(* the functions applied to their inputs *)

InitFn ==
    /\ ServiceAtRest
    /\ site = <<>>
    /\ input \in FnInputs
    /\ hashSeed \in (IF input.fn = "extract_vehicle_links" THEN 0..MaxSeed ELSE {0})
    /\ output = <<>>

ApplyExtract ==
    /\ input.fn = "extract_vehicle_links"
    /\ output = <<>>
    /\ output' = <<extract_vehicle_links(input.page, hashSeed)>>
    /\ UNCHANGED <<now, cache, site, hashSeed, failures, req, log, input>>

ApplyFilter ==
    /\ input.fn = "filter"
    /\ output = <<>>
    /\ output' = <<FilterUrls(input.urls, TermsOf(input.params))>>
    /\ UNCHANGED <<now, cache, site, hashSeed, failures, req, log, input>>

ApplyEnrich ==
    /\ input.fn = "enrich_vehicle"
    /\ output = <<>>
    /\ output' = <<enrich_vehicle(input.url, input.doc, input.args.make,
                                  input.args.model, input.args.year)>>
    /\ UNCHANGED <<now, cache, site, hashSeed, failures, req, log, input>>

NextFn == ApplyExtract \/ ApplyFilter \/ ApplyEnrich

SpecFn == InitFn /\ [][NextFn]_vars

-----------------------------------------------------------------------------
(* the properties *)

\* the function fn has been applied; Result is what it returned
Applied(fn) == input.fn = fn /\ output # <<>>
Result == output[1]

\* a search that missed the cache and got its listing
Running(r) == r.pc \in {"enrich", "done"} /\ ~r.hit

DataFields == {"price", "color", "mileage_km", "stock_number", "vin", "carfax_url"}

FailedAt(r) == {i \in DOMAIN r.docs : r.docs[i].status = "fail"}

\* C1: a search with n candidates (n <= 10) returns n records, one per
\* candidate in order, whichever detail fetches fail: the record of a failed
\* fetch has error set and its six data fields null, every other record is the
\* one enrich_vehicle gives for that URL and page alone, and the search never
\* fails once enrichment has begun
C1_BatchResilience ==
    \A t \in Threads :
        /\ req[t].pc = "failed" => req[t].docs = <<>>
        /\ Running(req[t]) =>
             /\ Len(req[t].out) = Len(req[t].docs)
             /\ Len(req[t].out) <= Len(req[t].urls)
             /\ req[t].pc = "done" /\ Len(req[t].urls) <= 10 =>
                  /\ Len(req[t].out) = Len(req[t].urls)
                  /\ req[t].resp = <<req[t].out>>
             /\ \A i \in DOMAIN req[t].out :
                  /\ req[t].out[i].url = PyStr(req[t].urls[i])
                  /\ req[t].docs[i].status = "fail" =>
                       /\ req[t].out[i].error = PyStr(req[t].docs[i].err)
                       /\ \A f \in DataFields : IsNone(req[t].out[i][f])
                  /\ req[t].docs[i].status = "ok" =>
                       req[t].out[i] = enrich_vehicle(req[t].urls[i], req[t].docs[i],
                                                      req[t].params.make, req[t].params.model,
                                                      req[t].params.year)

\* three candidates, the first and the third fetch fail, the search is answered
C1_TwoOfThreeFail ==
    /\ req[1].pc = "done"
    /\ Len(req[1].out) = 3
    /\ FailedAt(req[1]) = {1, 3}
    /\ req[1].out[2].vin = PyStr("3VV2B7AX5RM012345")
    /\ req[1].out[1].error = PyStr("timeout")

\* the value the JSON-LD lookup yields for a field of the page (None without one)
JsonLdField(doc, f) ==
    LET j == _jsonld_vehicle(doc.ld)
    IN  IF j.exc = "" /\ j.val.found THEN j.val[f] ELSE PyNone

\* C2: for price, stock_number, color and mileage_km, a non-null value from the
\* JSON-LD lookup is the value of the record, whatever the label scan and the
\* full-text pass find
C2_JsonLdWins ==
    Applied("enrich_vehicle") /\ input.doc.status = "ok" =>
        \A f \in {"price", "stock_number", "color", "mileage_km"} :
            ~IsNone(JsonLdField(input.doc, f)) => Result[f] = JsonLdField(input.doc, f)

\* the URL without its query and fragment
Canonical(u) ==
    LET cut == Least(1, Len(u), LAMBDA i : CharAt(u, i) \in {"?", "#"})
    IN  IF cut = 0 THEN u ELSE Slice(u, 1, cut - 1)

\* C3: extract_vehicle_links returns no URL twice and no vehicle under two
\* absolute forms
C3_OneUrlPerVehicle ==
    Applied("extract_vehicle_links") =>
        \A i, j \in DOMAIN Result :
            i # j => Result[i] # Result[j] /\ Canonical(Result[i]) # Canonical(Result[j])

\* the filter terms of a search: the words of the free text if given, otherwise
\* of the non-empty year, make and model, case-folded
FilterTerms(p) ==
    LET given == {x \in {p.year, p.make, p.model} : ~IsNone(x) /\ x.v # ""}
        texts == IF ~IsNone(p.text) /\ p.text.v # "" THEN {p.text.v}
                 ELSE {x.v : x \in given}
    IN  {StrLower(w) : w \in UNION {Range(StrSplit(x)) : x \in texts}}

\* the final path segment of a URL (what follows its last "/"), hyphens as
\* spaces, case-folded
Slug(u) == StrLower(StrReplace(AfterLast(u, "/"), "-", " "))

\* C4: the filter keeps a candidate if and only if every term is a substring of
\* its slug, the candidates kept staying in order; with no terms all are kept
C4_FilterIsConjunction ==
    Applied("filter") =>
        Result = SelectSeq(input.urls,
                           LAMBDA u : \A w \in FilterTerms(input.params) : Contains(Slug(u), w))

\* terms tiguan and 2024 keep the comfortline slug and reject the atlas slug
C4_TiguanKeptAtlasRejected ==
    /\ Applied("filter")
    /\ input.params.text = PyStr("tiguan 2024")
    /\ FilterTerms(input.params) = {"tiguan", "2024"}
    /\ BASE \o "/en/used-inventory/2024-volkswagen-tiguan-comfortline-id123" \in Range(Result)
    /\ BASE \o "/en/used-inventory/2024-volkswagen-atlas-id456" \notin Range(Result)
    /\ BASE \o "/en/used-inventory/2024-volkswagen-atlas-id456" \in Range(input.urls)

\* the labelled price fragment found on the page (price_raw of debug_detail)
PriceFragment(doc) == _find_labeled_value_in(_spec_scope(doc.body), LABELS_PRICE)

HasRebate(x) == Truthy(x) /\ Contains(StrLower(x.v), "rebate")

\* C5: when the labelled price fragment found on the page contains "rebate" in
\* any letter case, the price of the record is the JSON-LD price if there is
\* one and null otherwise (the fragment is the text the price is parsed from:
\* what _find_labeled_value_in returns, the label stripped)
C5_RebateRejected ==
    Applied("enrich_vehicle") /\ input.doc.status = "ok" /\ HasRebate(PriceFragment(input.doc)) =>
        Result.price = JsonLdField(input.doc, "price")

\* a page with a JSON-LD price and a labelled rebate: the JSON-LD price stays
C5_RebateBesideJsonLd ==
    /\ Applied("enrich_vehicle")
    /\ PriceFragment(input.doc) = PyStr("$1,000 Rebate")
    /\ JsonLdField(input.doc, "price") = PyStr("$25,000")
    /\ Result.price = PyStr("$25,000")

\* the surviving candidates in order of discovery on the listing page
Survivors(page, p) == FilterUrls(Discovered(page), TermsOf(p))

\* C6: a search makes at most 10 detail fetches, its result has length
\* min(10, number of surviving candidates), and the i-th record is the record
\* of the i-th surviving candidate in order of discovery on the listing page
C6_CapAndOrder ==
    \A t \in Threads :
        Running(req[t]) =>
            /\ Len(req[t].docs) <= 10
            /\ req[t].pc = "done" =>
                 Len(req[t].out) = Min(10, Len(Survivors(site, req[t].params)))
            /\ \A i \in DOMAIN req[t].out :
                 req[t].out[i].url = PyStr(Survivors(site, req[t].params)[i])

NullOrNatural(x) == IsNone(x) \/ (x.t = "int" /\ x.v >= 0)

\* C7: year and mileage_km of every record are null or a non-negative integer
C7_NumericFields ==
    Applied("enrich_vehicle") => NullOrNatural(Result.year) /\ NullOrNatural(Result.mileage_km)

BothFailed == <<"rendered failed", "plain failed">>

\* C8: a search fails only when the rendered fetch and the plain fetch of the
\* listing both fail; it has then fetched no detail page, produced no record
\* and written nothing to the cache, and the next search with the same key
\* misses the cache and fetches the listing again
C8_OnlyListingFailurePropagates ==
    /\ \A t \in Threads :
         /\ req[t].pc = "failed" =>
              /\ req[t].tries = BothFailed
              /\ req[t].docs = <<>> /\ req[t].out = <<>> /\ req[t].resp = <<>>
              /\ ~CacheHas(cache, req[t].key, now)
              /\ \A k \in DOMAIN cache : cache[k].stored < Len(log) - 1
         /\ Running(req[t]) =>
              req[t].tries \in {<<"rendered">>, <<"rendered failed", "plain">>}
    /\ \A i \in DOMAIN log :
         log[i].kind = "fail" =>
            /\ log[i - 1].kind = "miss" /\ log[i - 1].key = log[i].key
            /\ i + 1 \in DOMAIN log /\ log[i + 1].key = log[i].key =>
                 log[i + 1].kind = "miss"

\* a search failed, the same search came again and fetched the listing through
\* the fallback
C8_RetriedAfterFailure ==
    /\ Len(log) = 3
    /\ log[2].kind = "fail"
    /\ log[3].kind = "miss" /\ log[3].key = log[2].key
    /\ req[1].pc = "enrich"
    /\ req[1].tries = <<"rendered failed", "plain">>
    /\ cache = <<>>

\* C9: a page fetched successfully gives a record with no error field, with
\* mileage_km filled when the text holds an odometer figure and carfax_url
\* non-null when the page has a Carfax link
C9_CompleteAssembly ==
    Applied("enrich_vehicle") /\ input.doc.status = "ok" =>
        /\ Result.error = Absent
        /\ ~IsNone(input.doc.carfax) => ~IsNone(Result.carfax_url)
        /\ OdoSearch(FullText(input.doc), StrLower(FullText(input.doc))) # "" =>
             ~IsNone(Result.mileage_km)

\* the last write under key k before event i of the log (0 without one)
LastStore(k, i) ==
    LET js == {j \in 1..(i - 1) : log[j].kind = "store" /\ log[j].key = k}
    IN  IF js = {} THEN 0 ELSE CHOOSE j \in js : \A x \in js : x <= j

Live(j, time) == j > 0 /\ time < log[j].time + TTL

\* C10: a search hits exactly when the last write under its key is unexpired,
\* and then returns that write's list without a listing or detail fetch; a
\* search that misses makes its own fetches and stores its result, whatever
\* another thread does under the same key; the entry of a key is always the
\* result stored last under it
C10_LastWriterWins ==
    /\ \A i \in DOMAIN log :
         /\ log[i].kind = "hit" =>
              /\ Live(LastStore(log[i].key, i), log[i].time)
              /\ log[i].value = log[LastStore(log[i].key, i)].value
         /\ log[i].kind = "miss" => ~Live(LastStore(log[i].key, i), log[i].time)
         /\ log[i].kind = "store" =>
              \E j \in 1..(i - 1) :
                  log[j].kind = "miss" /\ log[j].t = log[i].t /\ log[j].key = log[i].key
    /\ \A t \in Threads :
         req[t].pc = "done" =>
            IF req[t].hit
            THEN req[t].tries = <<>> /\ req[t].docs = <<>>
            ELSE /\ req[t].tries # <<>>
                 /\ Len(req[t].docs) = Len(Cap(req[t].urls))
                 /\ \E j \in DOMAIN log :
                      /\ log[j].kind = "store" /\ log[j].t = t
                      /\ log[j].key = req[t].key /\ log[j].value = req[t].out
    /\ \A k \in DOMAIN cache :
         /\ LastStore(k, Len(log) + 1) > 0
         /\ cache[k].value = log[LastStore(k, Len(log) + 1)].value
         /\ cache[k].expires = log[LastStore(k, Len(log) + 1)].time + TTL

\* two threads miss on the same key, both store, the second write has a record
\* with an error field and differs from the first, and a later search is
\* answered with the second write
C10_SecondWriteServed ==
    /\ Len(log) = 5
    /\ log[1].kind = "miss" /\ log[2].kind = "miss" /\ log[1].t # log[2].t
    /\ log[3].kind = "store" /\ log[4].kind = "store"
    /\ log[3].value # log[4].value
    /\ log[4].value[1].error = PyStr("timeout")
    /\ log[5].kind = "hit" /\ log[5].value = log[4].value

====
